---- MODULE Spec2Model ----
(***************************************************************************)
(* Model of src/bot.py: the contract-address recovery of the Snap Alpha    *)
(* bot.  extract_contract_addresses is modelled statement by statement as  *)
(* a state machine; its helpers are operators on strings.  Texts and       *)
(* addresses are strings; a character is a string of length 1.             *)
(***************************************************************************)
EXTENDS Integers, Sequences, FiniteSets, TLC

(***************************************************************************)
(* Characters and character classes                                        *)
(***************************************************************************)

\* s[i-1] of Python, as a one-character string
Char(s, i) == SubSeq(s, i, i)

\* the class [1-9A-HJ-NP-Za-km-z] of the patterns at lines 170 and 260-262
Base58 ==
  { "1","2","3","4","5","6","7","8","9",
    "A","B","C","D","E","F","G","H","J","K","L","M","N","P","Q","R","S","T",
    "U","V","W","X","Y","Z",
    "a","b","c","d","e","f","g","h","i","j","k","m","n","o","p","q","r","s",
    "t","u","v","w","x","y","z" }

\* the class [a-fA-F0-9] of the pattern at line 319
HexDigit ==
  { "0","1","2","3","4","5","6","7","8","9",
    "a","b","c","d","e","f","A","B","C","D","E","F" }

\* the characters \s matches (line 247)
Whitespace == { " ", "\t", "\n", "\r", "\f" }

\* the characters str.replace removes at line 250
Newlines == { "\n", "\r" }

(***************************************************************************)
(* OCR_CORRECTIONS (lines 24-38)                                           *)
(***************************************************************************)
OCR_CORRECTIONS ==
  ("A" :> <<"4">>) @@ ("4" :> <<"A">>) @@
  ("O" :> <<"0">>) @@ ("0" :> <<"O">>) @@
  ("I" :> <<"1", "l">>) @@ ("1" :> <<"I", "l">>) @@ ("l" :> <<"1", "I">>) @@
  ("S" :> <<"5">>) @@ ("5" :> <<"S">>) @@
  ("B" :> <<"8">>) @@ ("8" :> <<"B">>) @@
  ("Z" :> <<"2">>) @@ ("2" :> <<"Z">>)

(***************************************************************************)
(* generate_address_variants (lines 145-158)                               *)
(***************************************************************************)
\* the variants appended for positions i..Len(address), in loop order
RECURSIVE variants_from(_, _)
variants_from(address, i) ==
  IF i > Len(address) THEN << >>
  ELSE LET char == Char(address, i)
           reps == IF char \in DOMAIN OCR_CORRECTIONS
                   THEN OCR_CORRECTIONS[char] ELSE << >>
       IN  [k \in 1..Len(reps) |->
              SubSeq(address, 1, i - 1) \o reps[k]
                \o SubSeq(address, i + 1, Len(address))]
           \o variants_from(address, i + 1)

generate_address_variants(address) ==
  <<address>> \o variants_from(address, 1)

(***************************************************************************)
(* validate_solana_address (lines 160-177)                                 *)
(***************************************************************************)
MIN_VALID_LEN == 40
FULL_LEN == 44
MIN_DISTINCT == 15

\* len(set(address))
DistinctChars(address) ==
  Cardinality({ Char(address, i) : i \in 1..Len(address) })

\* validate_solana_address with the test of line 174 left out (the faulty
\* variant that shows what C8 owes to that test)
validate_without_entropy(address) ==
  IF Len(address) < MIN_VALID_LEN \/ Len(address) > FULL_LEN THEN FALSE
  ELSE IF ~ (\A i \in 1..Len(address) : Char(address, i) \in Base58) THEN FALSE
  ELSE TRUE

validate_solana_address(address) ==
  IF Len(address) < MIN_VALID_LEN \/ Len(address) > FULL_LEN THEN FALSE
  ELSE IF ~ (\A i \in 1..Len(address) : Char(address, i) \in Base58) THEN FALSE
  ELSE IF DistinctChars(address) < MIN_DISTINCT THEN FALSE
  ELSE TRUE

(***************************************************************************)
(* generate_truncated_variants (lines 208-237)                             *)
(***************************************************************************)
common_endings ==
  << "k","h","n","t","p","m","K","H","N","T","P","M",
     "1","2","3","4","5","6","7","8","9",
     "A","B","C","D","E","F","G","J","L","Q","R","S","U","V","W","X","Y","Z",
     "a","b","c","d","e","f","g","j","k","m","n","p","q","r","s","u","v","w",
     "x","y","z" >>

MOST_COMMON == 30

generate_truncated_variants(address) ==
  IF Len(address) >= FULL_LEN THEN <<address>>
  ELSE LET chars_needed == FULL_LEN - Len(address)
       IN  IF chars_needed = 1
           THEN <<address>> \o
                [k \in 1..Len(common_endings) |-> address \o common_endings[k]]
           ELSE IF chars_needed = 2
           THEN <<address>> \o
                [k \in 1..(MOST_COMMON * MOST_COMMON) |->
                   address \o common_endings[((k - 1) \div MOST_COMMON) + 1]
                           \o common_endings[((k - 1) % MOST_COMMON) + 1]]
           ELSE <<address>>

(***************************************************************************)
(* re.sub, str.replace and re.findall on the patterns the program uses.    *)
(* A text is worked on by halves, the first half evaluated before the      *)
(* second, only to keep the evaluation shallow: the result is that of the  *)
(* left-to-right pass.                                                     *)
(***************************************************************************)
\* text[lo..hi] with every character of the set drop removed
RECURSIVE strip_range(_, _, _, _)
strip_range(text, drop, lo, hi) ==
  IF lo > hi THEN ""
  ELSE IF lo = hi
  THEN (IF Char(text, lo) \in drop THEN "" ELSE Char(text, lo))
  ELSE LET mid == (lo + hi) \div 2
       IN  strip_range(text, drop, lo, mid) \o strip_range(text, drop, mid + 1, hi)

\* the removal forgotten (the faulty variant that shows what C6 owes to
\* lines 247 and 253)
strip_chars_kept(text, drop) == text

\* re.sub(r'\s+', '', text) with drop = Whitespace (line 247);
\* text.replace('\n', '').replace('\r', '') with drop = Newlines (line 250)
strip_chars(text, drop) == strip_range(text, drop, 1, Len(text))

\* how many characters of class cls stand at positions i, i+1, ..., counted
\* up to hi: the count stops at hi, at the end of the text and at the first
\* character outside the class
run_length(text, cls, i, hi) ==
  LET stop(n) == \/ n = hi
                 \/ i + n > Len(text)
                 \/ Char(text, i + n) \notin cls
  IN  CHOOSE n \in 0..hi : stop(n) /\ \A k \in 0..(n - 1) : ~ stop(k)

\* a pattern  prefix[cls]{lo,hi} : a literal prefix, then lo to hi
\* characters of a class, as many as there are (greedy)
Pattern(prefix, cls, lo, hi) == [prefix |-> prefix, cls |-> cls, lo |-> lo, hi |-> hi]

\* the length of the match of pat that starts at position i, 0 when none does
match_length(text, pat, i) ==
  LET p == Len(pat.prefix)
  IN  IF i + p - 1 > Len(text) THEN 0
      ELSE IF SubSeq(text, i, i + p - 1) # pat.prefix THEN 0
      ELSE LET n == run_length(text, pat.cls, i + p, pat.hi)
           IN  IF n >= pat.lo THEN p + n ELSE 0

\* the scanner of re.findall, standing at position pos, taken through the
\* positions a..b: the matches it finds there and where it stands afterwards
RECURSIVE scan(_, _, _, _, _)
scan(text, pat, pos, a, b) ==
  IF pos > b \/ a > b THEN [matches |-> << >>, pos |-> pos]
  ELSE IF a = b
  THEN LET n == match_length(text, pat, a)
       IN  IF pos # a THEN [matches |-> << >>, pos |-> pos]
           ELSE IF n > 0
           THEN [matches |-> <<SubSeq(text, a, a + n - 1)>>, pos |-> a + n]
           ELSE [matches |-> << >>, pos |-> a + 1]
  ELSE LET mid == (a + b) \div 2
           left == scan(text, pat, pos, a, mid)
       IN  IF left.pos >= pos
           THEN LET right == scan(text, pat, left.pos, mid + 1, b)
                IN  [matches |-> left.matches \o right.matches, pos |-> right.pos]
           ELSE left

\* re.findall(pat, text): the non-overlapping matches, leftmost first
re_findall(pat, text) == scan(text, pat, 1, 1, Len(text)).matches

(***************************************************************************)
(* The oracle: DexScreener's answer to GET /latest/dex/tokens/{address}    *)
(* (lines 185-187).  A response is a timeout, a body that is not JSON, or  *)
(* a JSON value: an object with a list of pairs (None and a missing key    *)
(* read as the empty list), or a value that is not an object.  An address  *)
(* outside the oracle's domain is unknown to the service: no pairs.        *)
(***************************************************************************)
NoPairs == [kind |-> "json", is_object |-> TRUE, pairs |-> << >>]
Pairs(liquidities) == [kind |-> "json", is_object |-> TRUE, pairs |-> liquidities]
Timeout == [kind |-> "timeout", is_object |-> FALSE, pairs |-> << >>]
NotJson == [kind |-> "not_json", is_object |-> FALSE, pairs |-> << >>]
Malformed == [kind |-> "json", is_object |-> FALSE, pairs |-> << >>]

requests_get(orc, address) ==
  IF address \in DOMAIN orc THEN orc[address] ELSE NoPairs

(***************************************************************************)
(* test_address_on_chain (lines 179-190): what the call does, as a record  *)
(* [raised, value]; value is the truth value of what it returns.           *)
(***************************************************************************)
\* test_address_on_chain without its try/except (the faulty variant that
\* shows what C7 owes to lines 184 and 189-190)
test_address_on_chain_unguarded(orc, address) ==
  LET response == requests_get(orc, address)
      try_raises == \/ response.kind = "timeout"
                    \/ response.kind = "not_json"
                    \/ ~ response.is_object
  IN  IF try_raises
      THEN [raised |-> TRUE, value |-> FALSE]
      ELSE [raised |-> FALSE, value |-> Len(response.pairs) > 0]

test_address_on_chain(orc, address) ==
  LET response == requests_get(orc, address)
      \* requests.get raises on a timeout, response.json() on a body that is
      \* not JSON, data.get on a JSON value that is not an object
      try_raises == \/ response.kind = "timeout"
                    \/ response.kind = "not_json"
                    \/ ~ response.is_object
  IN  IF try_raises
      THEN [raised |-> FALSE, value |-> FALSE]          \* except: return False
      ELSE [raised |-> FALSE, value |-> Len(response.pairs) > 0]

(***************************************************************************)
(* extract_contract_addresses (lines 239-324)                              *)
(***************************************************************************)
\* solana_patterns (lines 259-263)
solana_patterns ==
  << Pattern("", Base58, 43, 44),     \* Full length
     Pattern("", Base58, 42, 43),     \* Missing 1-2 chars
     Pattern("", Base58, 40, 42) >>   \* Missing 2-4 chars (very lenient)

\* 0x[a-fA-F0-9]{40} (line 319)
eth_pattern == Pattern("0x", HexDigit, 40, 40)

VARIANT_LIMIT == 100

\* the membership test of line 290 answering False always (the faulty
\* variant that shows what C10 owes to that test)
has_address_never(cands, address) == FALSE

\* final_variant in [c['address'] for c in candidates] (line 290)
has_address(cands, address) ==
  \E j \in 1..Len(cands) : cands[j].address = address

\* lines 290-296
append_candidate(cands, final_variant, addr) ==
  IF validate_solana_address(final_variant) /\ ~ has_address(cands, final_variant)
  THEN Append(cands, [chain |-> "solana", address |-> final_variant,
                      original |-> addr, is_variant |-> final_variant # addr])
  ELSE cands

\* the loop of lines 289-296 over ocr_variants[k..]
RECURSIVE add_ocr_variants(_, _, _, _)
add_ocr_variants(cands, ocr_variants, k, addr) ==
  IF k > Len(ocr_variants) THEN cands
  ELSE add_ocr_variants(append_candidate(cands, ocr_variants[k], addr),
                        ocr_variants, k + 1, addr)

\* one iteration of the loop of lines 282-296
add_trunc_variant(cands, trunc_variant, addr) ==
  IF ~ validate_solana_address(trunc_variant) THEN cands
  ELSE add_ocr_variants(cands, generate_address_variants(trunc_variant), 1, addr)

\* the loop of lines 282-296 over truncated_variants[lo..hi], in order.  The
\* range is halved, and the first half's list evaluated before the second
\* half starts, only to keep the evaluation shallow.
RECURSIVE add_trunc_variants(_, _, _, _, _)
add_trunc_variants(cands, truncated_variants, lo, hi, addr) ==
  IF lo > hi THEN cands
  ELSE IF lo = hi THEN add_trunc_variant(cands, truncated_variants[lo], addr)
  ELSE LET mid == (lo + hi) \div 2
           first_half == add_trunc_variants(cands, truncated_variants, lo, mid, addr)
       IN  IF Len(first_half) >= 0
           THEN add_trunc_variants(first_half, truncated_variants, mid + 1, hi, addr)
           ELSE first_half

\* lines 272-296 for one match addr that is not in seen
process_match(cands, addr) ==
  LET truncated_variants ==
        IF Len(addr) < FULL_LEN THEN generate_truncated_variants(addr)
        ELSE <<addr>>
  IN  add_trunc_variants(cands, truncated_variants, 1, Len(truncated_variants), addr)

\* the loop of lines 320-322 without the test of line 321 (the faulty
\* variant that shows what C3 owes to that test)
RECURSIVE add_eth_matches_all(_, _, _)
add_eth_matches_all(addrs, eth_matches, k) ==
  IF k > Len(eth_matches) THEN addrs
  ELSE add_eth_matches_all(
         Append(addrs, [chain |-> "ethereum", address |-> eth_matches[k],
                        original |-> eth_matches[k], is_variant |-> FALSE]),
         eth_matches, k + 1)

\* the loop of lines 320-322 over eth_matches[k..]
RECURSIVE add_eth_matches(_, _, _)
add_eth_matches(addrs, eth_matches, k) ==
  IF k > Len(eth_matches) THEN addrs
  ELSE add_eth_matches(
         IF ~ has_address(addrs, eth_matches[k])
         THEN Append(addrs, [chain |-> "ethereum", address |-> eth_matches[k],
                             original |-> eth_matches[k], is_variant |-> FALSE])
         ELSE addrs,
         eth_matches, k + 1)

\* the loops testing every candidate, whatever its is_variant (the faulty
\* variant that shows what C2 owes to lines 303 and 312)
next_tested_any(cands, i, last, variant) ==
  IF i <= last THEN i ELSE 0

\* the first index in i..last of a candidate that the loop at line 302
\* (variant = FALSE) or the loop at line 311 (variant = TRUE) tests: the
\* iterations before it do nothing.  0 when the loop has none left.
next_tested(cands, i, last, variant) ==
  IF \E j \in i..last : cands[j].is_variant = variant
  THEN CHOOSE j \in i..last :
         /\ cands[j].is_variant = variant
         /\ \A k \in i..(j - 1) : cands[k].is_variant # variant
  ELSE 0

\* the slice of line 311 taking the whole list (the faulty variant that
\* shows what C11 owes to the limit of that slice)
variants_last_whole(cands) == Len(cands)

\* len(candidates[:100])
variants_last(cands) ==
  IF Len(cands) < VARIANT_LIMIT THEN Len(cands) ELSE VARIANT_LIMIT

VARIABLES
  text,            \* the argument of extract_contract_addresses
  oracle,          \* the service's answers, fixed during the invocation
  pc,              \* the position in extract_contract_addresses
  all_text,        \* line 253
  seen,            \* line 255
  candidates,      \* line 256
  pattern,         \* how many of solana_patterns the loop at 265 has taken
  solana_matches,  \* line 266
  m,               \* the loop at 268: index of the next match
  i,               \* the loops at 302 and 311: index of the next candidate
  addresses,       \* line 244; the return value once pc = "done"
  queries,         \* the addresses requested from the oracle so far, in order
  raised,          \* an exception has left extract_contract_addresses
  invocation,      \* 1, or 2 when the caller has called again with the same text
  previous,        \* what the first of two invocations returned and requested
  files,           \* the working directory: what each fixed path holds
  hpc,             \* each handle_photo invocation's position
  sources,         \* each invocation's text1..text6 so far: whose image each shows
  path_index,      \* each invocation's place in the loop at line 525
  easyocr          \* EASYOCR_AVAILABLE (lines 12-19)

\* the state of handle_photo and of the files it works in
photo_vars == <<files, hpc, sources, path_index, easyocr>>

\* the locals of extract_contract_addresses and what its caller keeps
extract_vars == <<text, oracle, pc, all_text, seen, candidates, pattern,
                  solana_matches, m, i, addresses, queries, raised,
                  invocation, previous>>

vars == <<text, oracle, pc, all_text, seen, candidates, pattern,
          solana_matches, m, i, addresses, queries, raised, invocation,
          previous, files, hpc, sources, path_index, easyocr>>

\* what an invocation leaves to its caller
Outcome == [addresses |-> addresses, queries |-> queries, raised |-> raised]
NoOutcome == [addresses |-> << >>, queries |-> << >>, raised |-> FALSE]

\* the state on entry to extract_contract_addresses(t) with the oracle orc
Entry(t, orc) ==
  /\ text = t
  /\ oracle = orc
  /\ pc = "start"
  /\ all_text = ""
  /\ seen = {}
  /\ candidates = << >>
  /\ pattern = 0
  /\ solana_matches = << >>
  /\ m = 1
  /\ i = 1
  /\ addresses = << >>
  /\ queries = << >>
  /\ raised = FALSE
  /\ invocation = 1
  /\ previous = NoOutcome

\* lines 244-256 with seen kept from one call to the next, as a module-level
\* set would be (the faulty variant that shows what C9 owes to line 255)
Begin_stale_seen ==
  /\ pc = "start"
  /\ LET clean_text == strip_chars(text, Whitespace)
         text_no_newlines == strip_chars(text, Newlines)
     IN  all_text' = clean_text \o " " \o text_no_newlines \o " " \o text
  /\ addresses' = << >>
  /\ seen' = seen
  /\ candidates' = << >>
  /\ pattern' = 0
  /\ pc' = "patterns"
  /\ UNCHANGED <<photo_vars, text, oracle, solana_matches, m, i, queries, raised,
                 invocation, previous>>

\* lines 244-256
Begin ==
  /\ pc = "start"
  /\ LET clean_text == strip_chars(text, Whitespace)
         text_no_newlines == strip_chars(text, Newlines)
     IN  all_text' = clean_text \o " " \o text_no_newlines \o " " \o text
  /\ addresses' = << >>
  /\ seen' = {}
  /\ candidates' = << >>
  /\ pattern' = 0
  /\ pc' = "patterns"
  /\ UNCHANGED <<photo_vars, text, oracle, solana_matches, m, i, queries, raised, invocation, previous>>

\* lines 265-266: the next pattern and its matches
FindMatches ==
  /\ pc = "patterns"
  /\ pattern < Len(solana_patterns)
  /\ pattern' = pattern + 1
  /\ solana_matches' = re_findall(solana_patterns[pattern + 1], all_text)
  /\ m' = 1
  /\ pc' = "matches"
  /\ UNCHANGED <<photo_vars, text, oracle, all_text, seen, candidates, i, addresses,
                 queries, raised, invocation, previous>>

\* lines 268-296: one iteration of the loop over solana_matches
ProcessMatch ==
  /\ pc = "matches"
  /\ m <= Len(solana_matches)
  /\ LET addr == solana_matches[m]
     IN  IF addr \in seen
         THEN UNCHANGED <<seen, candidates>>
         ELSE /\ seen' = seen \cup {addr}
              /\ candidates' = process_match(candidates, addr)
  /\ m' = m + 1
  /\ UNCHANGED <<photo_vars, text, oracle, pc, all_text, pattern, solana_matches, i,
                 addresses, queries, raised, invocation, previous>>

\* the loop at 268 is exhausted
MatchesDone ==
  /\ pc = "matches"
  /\ m > Len(solana_matches)
  /\ pc' = "patterns"
  /\ UNCHANGED <<photo_vars, text, oracle, all_text, seen, candidates, pattern,
                 solana_matches, m, i, addresses, queries, raised, invocation, previous>>

\* the loop at 265 is exhausted: line 302 begins
PatternsDone ==
  /\ pc = "patterns"
  /\ pattern >= Len(solana_patterns)
  /\ i' = 1
  /\ pc' = "originals"
  /\ UNCHANGED <<photo_vars, text, oracle, all_text, seen, candidates, pattern,
                 solana_matches, m, addresses, queries, raised, invocation, previous>>

\* lines 304-307 and 313-316 for candidates[j]
TestCandidate(j) ==
  LET candidate == candidates[j]
      r == test_address_on_chain(oracle, candidate.address)
  IN  /\ queries' = Append(queries, candidate.address)
      /\ IF r.raised
         THEN /\ raised' = TRUE
              /\ pc' = "done"
              /\ UNCHANGED <<i, addresses>>
         ELSE IF r.value
         THEN /\ addresses' = Append(addresses, candidate)
              /\ pc' = "done"                            \* return addresses
              /\ UNCHANGED <<i, raised>>
         ELSE /\ i' = j + 1
              /\ UNCHANGED <<pc, addresses, raised>>

\* lines 302-307: the loop runs on to the next candidate that is no variant
TestOriginal ==
  /\ pc = "originals"
  /\ next_tested(candidates, i, Len(candidates), FALSE) # 0
  /\ TestCandidate(next_tested(candidates, i, Len(candidates), FALSE))
  /\ UNCHANGED <<photo_vars, text, oracle, all_text, seen, candidates, pattern,
                 solana_matches, m, invocation, previous>>

\* the loop at 302 is exhausted: line 311 begins
OriginalsDone ==
  /\ pc = "originals"
  /\ next_tested(candidates, i, Len(candidates), FALSE) = 0
  /\ i' = 1
  /\ pc' = "variants"
  /\ UNCHANGED <<photo_vars, text, oracle, all_text, seen, candidates, pattern,
                 solana_matches, m, addresses, queries, raised, invocation, previous>>

\* lines 311-316: the loop runs on to the next variant of candidates[:100]
TestVariant ==
  /\ pc = "variants"
  /\ next_tested(candidates, i, variants_last(candidates), TRUE) # 0
  /\ TestCandidate(next_tested(candidates, i, variants_last(candidates), TRUE))
  /\ UNCHANGED <<photo_vars, text, oracle, all_text, seen, candidates, pattern,
                 solana_matches, m, invocation, previous>>

\* the loop at 311 is exhausted: line 319 begins
VariantsDone ==
  /\ pc = "variants"
  /\ next_tested(candidates, i, variants_last(candidates), TRUE) = 0
  /\ pc' = "eth"
  /\ UNCHANGED <<photo_vars, text, oracle, all_text, seen, candidates, pattern,
                 solana_matches, m, i, addresses, queries, raised, invocation, previous>>

\* lines 319-324
EthMatches ==
  /\ pc = "eth"
  /\ addresses' = add_eth_matches(addresses, re_findall(eth_pattern, all_text), 1)
  /\ pc' = "done"
  /\ UNCHANGED <<photo_vars, text, oracle, all_text, seen, candidates, pattern,
                 solana_matches, m, i, queries, raised, invocation, previous>>

Next ==
  \/ Begin
  \/ FindMatches
  \/ ProcessMatch
  \/ MatchesDone
  \/ PatternsDone
  \/ TestOriginal
  \/ OriginalsDone
  \/ TestVariant
  \/ VariantsDone
  \/ EthMatches

\* the caller calls extract_contract_addresses again with the same text
\* while the service answers as before (handle_photo, line 468, for a second
\* message whose scans read the same): the locals of the new call hold
\* nothing until its own lines 244-256 have run
Reinvoke ==
  /\ pc = "done"
  /\ invocation = 1
  /\ previous' = Outcome
  /\ invocation' = 2
  /\ pc' = "start"
  /\ queries' = << >>
  /\ raised' = FALSE
  /\ UNCHANGED <<photo_vars, text, oracle, all_text, seen, candidates, pattern,
                 solana_matches, m, i, addresses>>

NextTwice == Next \/ Reinvoke

(***************************************************************************)
(* handle_photo (lines 410-539).  bot = telebot.TeleBot(TOKEN) at line 10  *)
(* takes the library's defaults, which hand each update to one of two      *)
(* worker threads: two invocations of handle_photo may run at once, one    *)
(* per message, in one working directory.  A step is one call that reads   *)
(* or writes a file; the steps of the two invocations interleave freely.   *)
(*                                                                         *)
(* A file's content is the image it was made from: message h carries image *)
(* h, preprocessing keeps the image, and a text read from a file shows     *)
(* that file's image.  0 stands for no file, and for the empty text a scan *)
(* returns when it cannot open its file.                                   *)
(***************************************************************************)
Handlers == {1, 2}

\* message.photo[-1] of the message that invocation h handles (line 416)
Image(h) == h

NoFile == 0
NoText == 0

raw_path == "raw.jpg"
proc_path == "processed.jpg"
proc_inv_path == "processed_inverted.jpg"

\* the list of line 525
cleanup_paths == <<raw_path, proc_path, proc_inv_path>>

\* before any message: an empty directory, both threads idle
NoPhotos ==
  /\ files = [path \in {raw_path, proc_path, proc_inv_path} |-> NoFile]
  /\ hpc = [h \in Handlers |-> "write"]
  /\ sources = [h \in Handlers |-> << >>]
  /\ path_index = [h \in Handlers |-> 1]
  /\ easyocr = FALSE

\* the frame of a step of invocation h that moves to position next
Step(h, next) ==
  /\ hpc' = [hpc EXCEPT ![h] = next]
  /\ UNCHANGED <<extract_vars, easyocr>>

\* lines 412-424: download the message's image and write it to raw.jpg
WriteRaw(h) ==
  /\ hpc[h] = "write"
  /\ files' = [files EXCEPT ![raw_path] = Image(h)]
  /\ UNCHANGED <<sources, path_index>>
  /\ Step(h, "preprocess")

\* Image.open(input_path) ... img.save(output_path) of lines 40-72 and
\* 74-93: raises when the input is missing (caught at line 530), otherwise
\* writes the output from the image the input holds
preprocess(h, input_path, output_path, next) ==
  /\ UNCHANGED <<sources, path_index>>
  /\ IF files[input_path] = NoFile
     THEN /\ UNCHANGED files
          /\ Step(h, "failed")
     ELSE /\ files' = [files EXCEPT ![output_path] = files[input_path]]
          /\ Step(h, next)

\* line 435
PreprocessImage(h) ==
  /\ hpc[h] = "preprocess"
  /\ preprocess(h, raw_path, proc_path, "ocr1")

\* line 442
PreprocessInverted(h) ==
  /\ hpc[h] = "invert"
  /\ preprocess(h, raw_path, proc_inv_path, "ocr3")

\* a scan of a file (lines 110-143, 95-108): the text of the image the file
\* holds, or the empty text when the file cannot be opened (the except
\* clauses at lines 141 and 106)
scan_file(h, file_path, next) ==
  /\ sources' = [sources EXCEPT ![h] = Append(@, files[file_path])]
  /\ UNCHANGED <<files, path_index>>
  /\ Step(h, next)

\* lines 436, 439, 443 and 446: text1..text4
OcrSmartScan(h) ==
  \/ /\ hpc[h] = "ocr1"
     /\ scan_file(h, proc_path, "ocr2")
  \/ /\ hpc[h] = "ocr2"
     /\ scan_file(h, proc_path, "invert")
  \/ /\ hpc[h] = "ocr3"
     /\ scan_file(h, proc_inv_path, "ocr4")
  \/ /\ hpc[h] = "ocr4"
     /\ scan_file(h, proc_inv_path, IF easyocr THEN "easy5" ELSE "extract")

\* lines 451-452: text5 and text6, when EASYOCR_AVAILABLE
OcrEasyocrScan(h) ==
  \/ /\ hpc[h] = "easy5"
     /\ scan_file(h, proc_path, "easy6")
  \/ /\ hpc[h] = "easy6"
     /\ scan_file(h, proc_inv_path, "extract")

\* lines 455-522: combined_text goes to extract_contract_addresses (the
\* actions above Reinvoke), which touches no file.  A text with nothing in
\* it gives no address; otherwise the service's answers decide.  Without an
\* address the handler returns at line 482, leaving the files behind.
ExtractAddresses(h) ==
  /\ hpc[h] = "extract"
  /\ UNCHANGED <<files, sources, path_index>>
  /\ \E found \in BOOLEAN :
       /\ found => \E k \in 1..Len(sources[h]) : sources[h][k] # NoText
       /\ Step(h, IF found THEN "exists" ELSE "returned")

\* line 526: os.path.exists(path)
PathExists(h) ==
  /\ hpc[h] = "exists"
  /\ UNCHANGED <<files, sources>>
  /\ IF files[cleanup_paths[path_index[h]]] # NoFile
     THEN /\ UNCHANGED path_index
          /\ Step(h, "remove")
     ELSE IF path_index[h] < Len(cleanup_paths)
     THEN /\ path_index' = [path_index EXCEPT ![h] = @ + 1]
          /\ Step(h, "exists")
     ELSE /\ UNCHANGED path_index
          /\ Step(h, "finished")

\* line 527: os.remove(path), which raises when the path is gone
RemovePath(h) ==
  /\ hpc[h] = "remove"
  /\ UNCHANGED sources
  /\ IF files[cleanup_paths[path_index[h]]] = NoFile
     THEN /\ UNCHANGED <<files, path_index>>
          /\ Step(h, "failed")
     ELSE /\ files' = [files EXCEPT ![cleanup_paths[path_index[h]]] = NoFile]
          /\ IF path_index[h] < Len(cleanup_paths)
             THEN /\ path_index' = [path_index EXCEPT ![h] = @ + 1]
                  /\ Step(h, "exists")
             ELSE /\ UNCHANGED path_index
                  /\ Step(h, "finished")

NextPhotos ==
  \E h \in Handlers :
    \/ WriteRaw(h)
    \/ PreprocessImage(h)
    \/ OcrSmartScan(h)
    \/ PreprocessInverted(h)
    \/ OcrEasyocrScan(h)
    \/ ExtractAddresses(h)
    \/ PathExists(h)
    \/ RemovePath(h)

\* two messages have arrived; EasyOCR is installed or not
InitPhotos ==
  /\ Entry("", << >>)
  /\ files = [path \in {raw_path, proc_path, proc_inv_path} |-> NoFile]
  /\ hpc = [h \in Handlers |-> "write"]
  /\ sources = [h \in Handlers |-> << >>]
  /\ path_index = [h \in Handlers |-> 1]
  /\ easyocr \in BOOLEAN

(***************************************************************************)
(* The inputs checked: texts as the OCR passes produce them, and the       *)
(* service's answers                                                       *)
(***************************************************************************)
\* identifiers: 44, 43, 40 and 40 characters of the Base58 class, none of
\* them a key of OCR_CORRECTIONS
ID44 == "VHbs9CkEYo9iM7DdcCPDmd9nFNrro9nob9N7mGTcHkFn"
ID43 == "eTwatX6fXJqFh9MTGyPbbhDJebmRGdmRwcXuaNHDq3W"
IDA == "UmuKEonrLYEmwCn9qMhukdVfofYUPKvPDnUjhWxe"
IDB == "TpCFicJzWHhc7tCzmnVWvXphofCDRgvtC9xvUsnu"
\* an identifier of 40 characters with the keys S, 1, B and A in it
IDM == "SmuKEonrLYEm1Cn9qMhukdVfofYUPKvPDnUjhWAB"
\* 0x and 40 hexadecimal digits
ETH1 == "0x1111111111111111111111111111111111111111"
ETH2 == "0xAbCdEf0123456789aBcDeF0123456789abcdef01"
\* a run of 43 characters, 14 of them distinct (13 in its first 42)
LOW43 == "abcdefghjkmnpabcdefghjkmnpabcdefghjkmnpabcq"
\* two words of 20 characters, 10 and 10 distinct, 20 when joined
WORD1 == "abcdefghjkabcdefghjk"
WORD2 == "mnpqrstuvwmnpqrstuvw"

\* a run of 44 characters, 12 of them distinct
LOW44 == "abcdefghjkmnabcdefghjkmnabcdefghjkmnabcdefgh"

MaxLiquidity == 2
MaxBreak == 3

\* the service knows the addresses of known, each with one pair
Accepts(known) == [a \in known |-> Pairs(<<1>>)]

\* s with the separator sep put in after its first p characters
BreakAt(s, p, sep) == SubSeq(s, 1, p) \o sep \o SubSeq(s, p + 1, Len(s))

\* s with position p replaced by the character c
Misread(s, p, c) == SubSeq(s, 1, p - 1) \o c \o SubSeq(s, p + 1, Len(s))

\* a three-character prefix glued in front of an identifier
GluedInputs ==
  { [text |-> prefix \o ID44, oracle |-> Accepts({ID44})] : prefix \in {"NFA"} }

\* an identifier of 43 characters on its own, whole or broken by white space
\* after its first or before its last MaxBreak characters, in one or two
\* places; the service knows it
Separators == { " ", "\n" }
BreakPlaces ==
  (1..MaxBreak) \cup {Len(ID43) \div 2}
    \cup ((Len(ID43) - MaxBreak)..(Len(ID43) - 1))
VerbatimTexts ==
  {ID43, BreakAt(ID43, Len(ID43) \div 2, "\r\n"),
         BreakAt(ID43, Len(ID43) - 1, " \t ")}
  \cup { BreakAt(ID43, p, sep) : p \in BreakPlaces, sep \in Separators }
  \cup { BreakAt(BreakAt(ID43, q, "\n"), p, "\n") :
           p \in 1..MaxBreak, q \in (Len(ID43) - MaxBreak)..(Len(ID43) - 1) }
VerbatimInputs ==
  { [text |-> t, oracle |-> Accepts({ID43})] : t \in VerbatimTexts }
  \cup { [text |-> BreakAt(ID43, Len(ID43) - 1, " "),
          oracle |-> Accepts({ID43, ID43 \o "k", SubSeq(ID43, 1, 42)})] }

\* two identifiers in one text, the service knowing one or both with
\* liquidities up to MaxLiquidity; and a misreading whose correction the
\* service knows, before an identifier it knows
TwoKnownInputs ==
  { [text |-> IDA \o ", " \o IDB,
     oracle |-> (IDA :> Pairs(<<la>>)) @@ (IDB :> Pairs(<<lb>>))] :
       la \in 0..MaxLiquidity, lb \in 1..MaxLiquidity }
  \cup { [text |-> IDA \o ", " \o IDB,
          oracle |-> (IDA :> NoPairs) @@ (IDB :> Pairs(<<1, lb>>))] :
            lb \in 1..MaxLiquidity }
  \cup { [text |-> Misread(IDM, 1, "5") \o ", " \o IDB,
          oracle |-> (IDM :> Pairs(<<lm>>)) @@ (IDB :> Pairs(<<1>>))] :
            lm \in 1..MaxLiquidity }

\* a misreading of IDM: one character that is a key of OCR_CORRECTIONS read
\* as one of its listed twins; the service knows IDM alone.  On its own, and
\* after another identifier in the text.
MisreadTexts ==
  UNION { { Misread(IDM, p, OCR_CORRECTIONS[Char(IDM, p)][k]) :
              k \in 1..Len(OCR_CORRECTIONS[Char(IDM, p)]) } :
          p \in { q \in 1..Len(IDM) : Char(IDM, q) \in DOMAIN OCR_CORRECTIONS } }
MisreadInputs ==
  { [text |-> t, oracle |-> Accepts({IDM})] : t \in MisreadTexts }
  \cup { [text |-> ID44 \o ", " \o Misread(IDM, 1, "5"),
          oracle |-> Accepts({IDM})] }

\* requests that fail: for the first of two identifiers, for a misreading
\* whose correction the service knows, and for every address
Failures == { Timeout, NotJson, Malformed }
FailureInputs ==
  { [text |-> IDA \o ", " \o IDB,
     oracle |-> (IDA :> f) @@ (IDB :> Pairs(<<1>>))] : f \in Failures }
  \cup { [text |-> Misread(IDM, 1, "5"),
          oracle |-> (Misread(IDM, 1, "5") :> f) @@ (IDM :> Pairs(<<1>>))] :
            f \in Failures }
  \cup { [text |-> IDA \o ", " \o IDB, oracle |-> [a \in {IDA, IDB} |-> f]] :
            f \in Failures }

\* texts whose runs of identifier characters have fewer than MIN_DISTINCT
\* distinct characters each
LowEntropyInputs ==
  { [text |-> LOW43, oracle |-> Accepts({LOW43})],
    [text |-> LOW43, oracle |-> Accepts({LOW43 \o "t"})],
    [text |-> WORD1 \o " " \o WORD2, oracle |-> Accepts({WORD1 \o WORD2})],
    [text |-> WORD1 \o ", " \o WORD2, oracle |-> Accepts({WORD1, WORD2})],
    [text |-> LOW44, oracle |-> Accepts({LOW44})],
    [text |-> LOW44 \o " " \o WORD1, oracle |-> Accepts({LOW44})],
    [text |-> ETH1, oracle |-> Accepts({ETH1})] }

\* texts with 0x strings in them
EthInputs ==
  { [text |-> ETH1, oracle |-> << >>],
    [text |-> ETH1 \o ", " \o ETH2, oracle |-> << >>],
    [text |-> ETH2 \o " " \o ETH2, oracle |-> << >>],
    [text |-> IDA \o ", " \o ETH1, oracle |-> Accepts({IDA})],
    [text |-> IDA \o ", " \o ETH1 \o ", " \o ETH2, oracle |-> << >>] }

\* texts with many candidates, none known to the service
UnknownInputs ==
  { [text |-> ID44, oracle |-> << >>],
    [text |-> ID44 \o ", " \o IDA, oracle |-> << >>],
    [text |-> ID44 \o ", " \o IDA \o ", " \o IDB, oracle |-> << >>] }

\* runs short of the full length, whose guessed endings fill the candidate
\* list: a run of 42 characters, the service knowing a guessed extension
\* that stands among the first VARIANT_LIMIT candidates, or one that stands
\* after them, or that and the run itself with a failing request; and a run
\* of 43 characters before the same run with one more character, the
\* service knowing that and an extension guessed earlier
ID42 == SubSeq(ID43, 1, 42)
VariantInputs ==
  { [text |-> ID42, oracle |-> Accepts({ID42 \o "kh"})],
    [text |-> ID42, oracle |-> Accepts({ID42 \o "TT"})],
    [text |-> ID42, oracle |-> (ID42 :> Timeout) @@ Accepts({ID42 \o "kn"})],
    [text |-> ID43 \o ", " \o ID43 \o "t",
     oracle |-> Accepts({ID43 \o "n", ID43 \o "t"})] }

Inputs ==
  GluedInputs \cup VerbatimInputs \cup TwoKnownInputs \cup MisreadInputs
    \cup FailureInputs \cup LowEntropyInputs \cup EthInputs \cup UnknownInputs
    \cup VariantInputs

Init ==
  /\ \E input \in Inputs : Entry(input.text, input.oracle)
  /\ NoPhotos

\* one invocation per input
Spec == Init /\ [][Next]_vars

\* two invocations per input
SpecTwice == Init /\ [][NextTwice]_vars

\* two photo messages handled by the two worker threads
SpecPhotos == InitPhotos /\ [][NextPhotos]_vars

(***************************************************************************)
(* Vocabulary of the properties                                            *)
(***************************************************************************)
Done == pc = "done"

\* the address strings of the result, in order
ReturnedAddresses == [k \in 1..Len(addresses) |-> addresses[k].address]

\* the service accepts an address: its answer is an object with pairs
OracleAccepts(address) ==
  LET response == requests_get(oracle, address)
  IN  response.kind = "json" /\ response.is_object /\ Len(response.pairs) > 0

\* the request for an address fails: no answer, or none with a pairs list
OracleFails(address) ==
  LET response == requests_get(oracle, address)
  IN  response.kind # "json" \/ ~ response.is_object

\* the weight of an accepted address: its largest liquidity (line 337)
Weight(address) ==
  LET liquidities == requests_get(oracle, address).pairs
  IN  CHOOSE w \in { liquidities[k] : k \in 1..Len(liquidities) } :
        \A k \in 1..Len(liquidities) : liquidities[k] <= w

\* the candidates in the order the two loops request them: the unmodified
\* matches, then the variants among the first VARIANT_LIMIT candidates
QueryOrder ==
  LET is_original(c) == ~ c.is_variant
      is_variant(c) == c.is_variant
      tested == SelectSeq(candidates, is_original)
                  \o SelectSeq(SubSeq(candidates, 1, variants_last(candidates)),
                               is_variant)
  IN  [k \in 1..Len(tested) |-> tested[k].address]

\* the maximal runs of Base58 characters of a text
Runs(t) == re_findall(Pattern("", Base58, 1, Len(t)), t)

\* generation is over: the list the loops at lines 302 and 311 are handed
Generated == pc \in {"originals", "variants", "eth", "done"}

(***************************************************************************)
(* C1  Sliding window: when the text is one run made of three Base58       *)
(* characters glued in front of a valid identifier of 44 characters and    *)
(* the service accepts that identifier alone, the identifier is among the  *)
(* candidates and the result is exactly that identifier.                   *)
(***************************************************************************)
GluedIdentifier ==
  /\ Len(text) = 3 + FULL_LEN
  /\ Runs(text) = <<text>>
  /\ validate_solana_address(SubSeq(text, 4, Len(text)))
  /\ oracle = Accepts({SubSeq(text, 4, Len(text))})

C1_SlidingWindow ==
  GluedIdentifier =>
    /\ Generated => has_address(candidates, SubSeq(text, 4, Len(text)))
    /\ Done => ReturnedAddresses = <<SubSeq(text, 4, Len(text))>>

(***************************************************************************)
(* C2  Selector.  As claimed: when several candidates would be accepted,   *)
(* the returned identifier is an accepted candidate of the highest weight, *)
(* and among those of equal weight the first in candidate order.           *)
(***************************************************************************)
AcceptedCandidates ==
  { j \in 1..Len(candidates) : OracleAccepts(candidates[j].address) }

Requested(address) == \E q \in 1..Len(queries) : queries[q] = address

EthStrings ==
  LET eth_matches == re_findall(eth_pattern, all_text)
  IN  { eth_matches[k] : k \in 1..Len(eth_matches) }

C4_QueryCeiling == Len(queries) <= VARIANT_LIMIT

(***************************************************************************)
(* C5  Mutation correctness: when the text contains a string that differs  *)
(* from an identifier at one position, the wrong character being a twin    *)
(* OCR_CORRECTIONS lists for the true one, and the service accepts that    *)
(* identifier alone, the result is exactly the identifier.                 *)
(***************************************************************************)
IsMisreadingOf(t, id) ==
  /\ Len(t) = Len(id)
  /\ \E p \in 1..Len(id) :
       /\ Char(id, p) \in DOMAIN OCR_CORRECTIONS
       /\ \E k \in 1..Len(OCR_CORRECTIONS[Char(id, p)]) :
            t = Misread(id, p, OCR_CORRECTIONS[Char(id, p)][k])

ContainsMisreadingOf(id) ==
  \E from \in 1..(Len(text) - Len(id) + 1) :
    IsMisreadingOf(SubSeq(text, from, from + Len(id) - 1), id)

C5_MutationCorrect ==
  \A id \in DOMAIN oracle :
    (/\ Done
     /\ oracle = Accepts({id})
     /\ validate_solana_address(id)
     /\ ContainsMisreadingOf(id)) => ReturnedAddresses = <<id>>

(***************************************************************************)
(* C6  Verbatim recovery: when the text is a valid identifier of 43        *)
(* characters and nothing else, broken anywhere by white space, and the    *)
(* service accepts it, the result is exactly that identifier, unmodified,  *)
(* found with the first request.                                           *)
(***************************************************************************)
VerbatimIdentifier ==
  LET id == strip_range(text, Whitespace, 1, Len(text))
  IN  /\ Len(id) = 43
      /\ validate_solana_address(id)
      /\ OracleAccepts(id)

C6_VerbatimRecovery ==
  (Done /\ VerbatimIdentifier) =>
    /\ ReturnedAddresses = <<strip_range(text, Whitespace, 1, Len(text))>>
    /\ ~ addresses[1].is_variant
    /\ Len(queries) = 1

\* an identifier broken in two places has been recovered
C6_Witness ==
  /\ Done
  /\ VerbatimIdentifier
  /\ Len(text) >= 45
  /\ Len(addresses) = 1

(***************************************************************************)
(* C7  Failure isolation: no failed request raises out of                  *)
(* extract_contract_addresses; a failed request counts as a candidate not  *)
(* verified and the candidates after it are requested in order, so that    *)
(* the first candidate the service accepts after failed requests is the    *)
(* result.                                                                 *)
(***************************************************************************)
C7_FailureIsolation ==
  /\ ~ raised
  /\ \A q \in 1..Len(queries) :
       /\ queries[q] = QueryOrder[q]
       /\ OracleFails(queries[q]) =>
            \/ q < Len(queries)
            \/ ~ Done
            \/ q = Len(QueryOrder) /\ \A k \in 1..Len(addresses) :
                                         addresses[k].chain # "solana"
  /\ Done =>
       \A q \in 1..Len(QueryOrder) :
         (/\ OracleAccepts(QueryOrder[q])
          /\ \A q2 \in 1..(q - 1) : ~ OracleAccepts(QueryOrder[q2]))
           => /\ ReturnedAddresses = <<QueryOrder[q]>>
              /\ queries = SubSeq(QueryOrder, 1, q)

\* a request failed and a later candidate is the result
C7_Witness ==
  /\ Done
  /\ Len(queries) > 1
  /\ OracleFails(queries[1])
  /\ ReturnedAddresses = <<queries[Len(queries)]>>

(***************************************************************************)
(* C8  Low entropy.  As claimed: when each run of identifier characters of *)
(* the text has fewer than MIN_DISTINCT distinct characters the result is  *)
(* empty, and no returned string has fewer than MIN_DISTINCT distinct      *)
(* characters.                                                             *)
(***************************************************************************)
LowEntropy(t) ==
  \A k \in 1..Len(Runs(t)) : DistinctChars(Runs(t)[k]) < MIN_DISTINCT

C8_LowEntropyRejected ==
  Done =>
    /\ LowEntropy(text) => addresses = << >>
    /\ \A k \in 1..Len(addresses) :
         DistinctChars(addresses[k].address) >= MIN_DISTINCT

(***************************************************************************)
(* C8 as amended: no Solana string with fewer than MIN_DISTINCT distinct   *)
(* characters is a candidate, is requested or is returned; and when each   *)
(* run of identifier characters of the searched text (the text with its    *)
(* white space removed, and the text itself) has fewer than                *)
(* MIN_DISTINCT - 2 distinct characters, there is no candidate, no request *)
(* and no Solana result.  Runs joined by the removal of white space, the   *)
(* endings guessed for a run of 42 or 43 characters and 0x strings can     *)
(* still be returned from a text whose runs are each below the threshold.  *)
(***************************************************************************)
C8_FilteredCandidates ==
  /\ \A j \in 1..Len(candidates) :
       DistinctChars(candidates[j].address) >= MIN_DISTINCT
  /\ \A q \in 1..Len(queries) : DistinctChars(queries[q]) >= MIN_DISTINCT
  /\ \A k \in 1..Len(addresses) :
       addresses[k].chain = "solana" =>
         DistinctChars(addresses[k].address) >= MIN_DISTINCT
  /\ (/\ pc # "start"
      /\ \A k \in 1..Len(Runs(all_text)) :
           DistinctChars(Runs(all_text)[k]) < MIN_DISTINCT - 2)
       => /\ candidates = << >>
          /\ queries = << >>
          /\ \A k \in 1..Len(addresses) : addresses[k].chain # "solana"

\* a text of low-entropy runs went through with candidates left after the
\* filter, and one with a run of 44 characters was left with none
C8_Witness ==
  /\ Done
  /\ LowEntropy(text)
  /\ \/ Len(addresses) = 1 /\ addresses[1].chain = "solana"
     \/ Len(text) >= FULL_LEN /\ candidates = << >> /\ addresses = << >>

(***************************************************************************)
(* C9  Determinism: a second invocation with the same text, the service    *)
(* answering as before, returns the same result and makes the same         *)
(* requests in the same order as the first.                                *)
(***************************************************************************)
C9_Deterministic ==
  (Done /\ invocation = 2) => Outcome = previous

\* the second of two invocations has ended with a result after several
\* requests
C9_Witness ==
  /\ Done
  /\ invocation = 2
  /\ Len(queries) > 1
  /\ Len(addresses) = 1

(***************************************************************************)
(* C10  No duplicates: at every step of the generation, and in the list    *)
(* handed to the loops at lines 302 and 311, no two candidates have the    *)
(* same address.                                                           *)
(***************************************************************************)
C10_NoDuplicates ==
  Cardinality({ candidates[j].address : j \in 1..Len(candidates) })
    = Len(candidates)

\* a run matched by two patterns, with a guessed ending listed twice in
\* common_endings, has been through the generation
C10_Witness ==
  /\ Generated
  /\ \E j \in 1..Len(candidates) :
       /\ Len(candidates[j].original) = 43
       /\ candidates[j].address = candidates[j].original \o "k"
  /\ \E j \in 1..Len(candidates) : Len(candidates[j].original) = 42

(***************************************************************************)
(* C11  Originals before variants: every request for a candidate entered   *)
(* as a variant (is_variant true) comes after a request for each candidate *)
(* entered as an unmodified match (is_variant false), each of which the    *)
(* service rejected or failed to answer; the variant requested stands in   *)
(* the first 100 positions of the candidate list; and so a variant is      *)
(* returned only when every unmodified match was requested and not         *)
(* accepted.                                                               *)
(***************************************************************************)
OriginalAddresses ==
  { candidates[j].address :
      j \in { k \in 1..Len(candidates) : ~ candidates[k].is_variant } }

\* the request at position q of the log follows a request for every
\* unmodified match, none of them accepted
AfterOriginals(q) ==
  \A a \in OriginalAddresses :
    /\ \E p \in 1..(q - 1) : queries[p] = a
    /\ ~ OracleAccepts(a)

RawInUse == {"preprocess", "ocr1", "ocr2", "invert"}
ProcInUse ==
  {"ocr1", "ocr2"}
    \cup (IF easyocr THEN {"invert", "ocr3", "ocr4", "easy5"} ELSE {})
ProcInvInUse ==
  {"ocr3", "ocr4"} \cup (IF easyocr THEN {"easy5", "easy6"} ELSE {})

C12_HandlerIsolation ==
  \A h \in Handlers :
    /\ \A k \in 1..Len(sources[h]) : sources[h][k] = Image(h)
    /\ hpc[h] \in RawInUse => files[raw_path] = Image(h)
    /\ hpc[h] \in ProcInUse => files[proc_path] = Image(h)
    /\ hpc[h] \in ProcInvInUse => files[proc_inv_path] = Image(h)
====
